---- MODULE Spec2Model ----
(***************************************************************************)
(* A model of the SSH key manager's host registration (routes/hosts.rs,    *)
(* add_host), of its connection and remote-read engine (sshclient.rs,      *)
(* try_connect and get_authorized_keys), of its key codec (sshclient.rs,   *)
(* SshPublicKey), of the host diff and of the authentication middleware    *)
(* (middleware.rs).                                                        *)
(*                                                                         *)
(* Rust's Option<T> is a sequence of length at most one: <<>> is None and  *)
(* <<v>> is Some(v).  A string is the sequence of its characters.  A       *)
(* KeyOwner is a tagged tuple: <<"None">>, <<"User", u>> or <<"Host", h>>. *)
(***************************************************************************)
EXTENDS Integers, Sequences, FiniteSets, TLC

\* ------------------------------------------------------------- bounds
\* The Host table holds at most MaxHosts rows.
MaxHosts == 2
\* A host has at most MaxKeys stored host keys.
MaxKeys == 2
\* The remote command prints at most MaxLines lines.
MaxLines == 2
\* A line handed to the key parser is at most MaxLineLen characters long.
MaxLineLen == 7
\* A text handed to from_lines is at most MaxTextLines lines long.
MaxTextLines == 3
\* The expected and the observed key set hold at most MaxDiffKeys keys each.
MaxDiffKeys == 2
\* A request path is at most MaxPathLen pieces long.
MaxPathLen == 3

\* ------------------------------------------------------------ domains
Hostnames == {"a", "b"}
Usernames == {"root"}
Names     == {"h"}
Keys      == {"k1", "k2"}
Ports     == {22, 70000}

\* --------------------------------------------------------- the state
VARIABLES
    hosts,      \* the Host table, in id order: hosts[i].id = i
    serverKey,  \* the host key each remote address presents right now
    pending,    \* Option: the first-phase request blocked in key_receiver.recv()
    resp,       \* the response of the add_host request that completed last
    offered,    \* per target, the fingerprint the last dialog offered for it
    op,         \* the SshClient operation that returned last, with its result
    fn          \* the codec, diff or middleware call made last, with its result

vars == <<hosts, serverKey, pending, resp, offered, op, fn>>

\* ------------------------------------------------- external collaborators

\* ConnectionDetails::new_from_signed: the port must fit a u16.
PortOk(port) == port >= 0 /\ port <= 65535

ValidPorts == {p \in Ports : PortOk(p)}

\* What a dialog is offered for: address, port and login user.
Targets == [hostname : Hostnames, port : ValidPorts, username : Usernames]

TargetOf(form) ==
    [hostname |-> form.hostname, port |-> form.port, username |-> form.username]

\* Host::get_host_id: the row with that id, if there is one; the query
\* itself may fail.
GetHostId(store, via, lookupOk) ==
    IF ~lookupOk THEN [err |-> TRUE, host |-> <<>>]
    ELSE IF via \in DOMAIN store THEN [err |-> FALSE, host |-> <<store[via]>>]
    ELSE [err |-> FALSE, host |-> <<>>]

\* Host::add_host: the new row gets the next id.
InsertHost(store, new_host) ==
    Append(store, [id |-> Len(store) + 1] @@ new_host)

\* A verified session to a stored host: the address is reachable, presents the
\* stored fingerprint, and so does every hop of its jump chain.  fuel bounds
\* the walk along jump_via.
RECURSIVE SessionTo(_, _, _, _)
SessionTo(store, keyOf, h, fuel) ==
    /\ fuel > 0
    /\ keyOf[h.hostname] = h.key_fingerprint
    /\ \/ h.jump_via = <<>>
       \/ /\ h.jump_via[1] \in DOMAIN store
          /\ SessionTo(store, keyOf, store[h.jump_via[1]], fuel - 1)

\* Whether the route to the target is up: directly, or through a verified
\* session to the jump host.
RouteUp(store, keyOf, maybe_jumphost, env) ==
    /\ env.netUp
    /\ \/ maybe_jumphost = <<>>
       \/ SessionTo(store, keyOf, maybe_jumphost[1], Len(store))

\* SshClient::get_hostkey / get_hostkey_via: a handshake with no trust check;
\* Ok hands back the receiving end of a one-shot channel.
GetHostkey(store, keyOf, maybe_jumphost, env) ==
    RouteUp(store, keyOf, maybe_jumphost, env)

\* SshClient::try_authenticate / try_authenticate_via: a handshake that trusts
\* exactly key_fingerprint, then a login with the configured credential.
TryAuthenticate(store, keyOf, maybe_jumphost, hostname, key_fingerprint, env) ==
    /\ RouteUp(store, keyOf, maybe_jumphost, env)
    /\ keyOf[hostname] = key_fingerprint
    /\ env.credOk

\* ------------------------------------------------------------ add_host

Forms ==
    [name : Names, username : Usernames, hostname : Hostnames, port : Ports,
     jumphost : {<<>>, <<-1>>} \cup {<<v>> : v \in 1 .. MaxHosts},
     key_fingerprint : {<<>>} \cup {<<k>> : k \in Keys}]

\* What the environment decides during one request.
Envs ==
    [lookupOk : BOOLEAN, netUp : BOOLEAN, credOk : BOOLEAN, insertOk : BOOLEAN]

\* The decisions a request can meet: no lookup is made without a jump host
\* id, and no login and no insert without a fingerprint.
EnvsOf(form) ==
    {env \in Envs :
        /\ (form.jumphost = <<>> \/ form.jumphost[1] < 0) => env.lookupOk
        /\ form.key_fingerprint = <<>> => (env.credOk /\ env.insertOk)}

NoResp ==
    [kind |-> "none", msg |-> "", key_fingerprint |-> <<>>, form |-> <<>>,
     auth |-> "none", route |-> <<>>, dialed |-> FALSE, persisted |-> FALSE]

\* A response, with what the request did on the way to it: auth is the
\* outcome of the trusting authentication ("none" when none was made), route
\* the jump host row it was made through, dialed whether any SSH connection was
\* attempted, persisted whether Host::add_host stored a row.
Response(kind, msg, form) ==
    [NoResp EXCEPT !.kind = kind, !.msg = msg, !.form = <<form>>]

\* The jump host of the form: none given, a negative id, or the stored row.
MaybeJumphost(store, form, env) ==
    IF form.jumphost = <<>> THEN [err |-> FALSE, host |-> <<>>]
    ELSE IF form.jumphost[1] < 0 THEN [err |-> FALSE, host |-> <<>>]
    ELSE GetHostId(store, form.jumphost[1], env.lookupOk)

\* jump_via taken from the form instead of the jump host that was looked up.
JumpVia_FromForm(form, maybe_jumphost) == form.jumphost

\* jump_via of the new row.
JumpVia(form, maybe_jumphost) ==
    IF maybe_jumphost = <<>> THEN <<>> ELSE <<maybe_jumphost[1].id>>

NewHost(form, key_fingerprint, maybe_jumphost) ==
    [name |-> form.name, hostname |-> form.hostname, port |-> form.port,
     username |-> form.username, key_fingerprint |-> key_fingerprint,
     jump_via |-> JumpVia(form, maybe_jumphost)]

\* The early return on Err(error) left out.
Authenticated_Always(authOk) == TRUE

\* Whether the second phase goes on to store the host.
Authenticated(authOk) == authOk

\* Host::add_host called before try_authenticate instead of after it.
ConfirmPhase_PersistFirst(store, keyOf, form, maybe_jumphost, env) ==
    LET key_fingerprint == form.key_fingerprint[1]
        stored == IF env.insertOk
                  THEN InsertHost(store, NewHost(form, key_fingerprint,
                                                 maybe_jumphost))
                  ELSE store
        authOk == TryAuthenticate(store, keyOf, maybe_jumphost, form.hostname,
                                  key_fingerprint, env)
        tried == [Response("error", "ssh error", form) EXCEPT
                      !.auth = IF authOk THEN "ok" ELSE "failed",
                      !.key_fingerprint = <<key_fingerprint>>,
                      !.route = maybe_jumphost,
                      !.dialed = TRUE, !.persisted = env.insertOk]
    IN  IF ~authOk THEN [resp |-> tried, hosts |-> stored]
        ELSE IF env.insertOk
        THEN [resp |-> [tried EXCEPT !.kind = "created", !.msg = "Added host"],
              hosts |-> stored]
        ELSE [resp |-> [tried EXCEPT !.msg = "database error"],
              hosts |-> stored]

\* The second phase: key_fingerprint is present.  Returns the response and the
\* Host table after the request.
ConfirmPhase(store, keyOf, form, maybe_jumphost, env) ==
    LET key_fingerprint == form.key_fingerprint[1]
        authOk == TryAuthenticate(store, keyOf, maybe_jumphost, form.hostname,
                                  key_fingerprint, env)
        tried == [Response("error", "ssh error", form) EXCEPT
                      !.auth = IF authOk THEN "ok" ELSE "failed",
                      !.key_fingerprint = <<key_fingerprint>>,
                      !.route = maybe_jumphost,
                      !.dialed = TRUE]
    IN  IF ~Authenticated(authOk) THEN [resp |-> tried, hosts |-> store]
        ELSE IF env.insertOk
        THEN [resp |-> [tried EXCEPT !.kind = "created", !.msg = "Added host",
                                     !.persisted = TRUE],
              hosts |-> InsertHost(store, NewHost(form, key_fingerprint,
                                                  maybe_jumphost))]
        ELSE [resp |-> [tried EXCEPT !.msg = "database error"],
              hosts |-> store]

\* The first phase up to key_receiver.recv(): either an error response, or the
\* request is left waiting on the channel.
BeginPhase(store, keyOf, form, maybe_jumphost, env) ==
    IF GetHostkey(store, keyOf, maybe_jumphost, env)
    THEN [resp |-> NoResp,
          pending |-> <<[form |-> form, queue |-> <<>>, senderAlive |-> TRUE]>>]
    ELSE [resp |-> [Response("error", "ssh error", form) EXCEPT !.dialed = TRUE],
          pending |-> <<>>]

\* ConnectionDetails::new_from_signed's error ignored: the request goes on
\* with the port as given.
AddHost_NoPortCheck(form, env) ==
    /\ resp = NoResp
    /\ pending = <<>>
    /\ UNCHANGED <<serverKey, offered, op, fn>>
    /\ LET j == MaybeJumphost(hosts, form, env) IN
       IF j.err
       THEN /\ resp' = Response("not_found", "Couldn't find jump host", form)
            /\ UNCHANGED <<hosts, pending>>
       ELSE IF form.key_fingerprint = <<>>
       THEN /\ LET b == BeginPhase(hosts, serverKey, form, j.host, env) IN
               /\ resp' = b.resp
               /\ pending' = b.pending
            /\ UNCHANGED hosts
       ELSE /\ LET c == ConfirmPhase(hosts, serverKey, form, j.host, env) IN
               /\ Len(c.hosts) <= MaxHosts
               /\ resp' = c.resp
               /\ hosts' = c.hosts
            /\ UNCHANGED pending

\* POST /hosts/add.  Requests are taken one at a time: none is waiting in
\* recv() and the last response was delivered.
AddHost(form, env) ==
    /\ resp = NoResp
    /\ pending = <<>>
    /\ UNCHANGED <<serverKey, offered, op, fn>>
    /\ LET j == MaybeJumphost(hosts, form, env) IN
       IF j.err
       THEN /\ resp' = Response("not_found", "Couldn't find jump host", form)
            /\ UNCHANGED <<hosts, pending>>
       ELSE IF ~PortOk(form.port)
       THEN /\ resp' = Response("error", "Invalid port number", form)
            /\ UNCHANGED <<hosts, pending>>
       ELSE IF form.key_fingerprint = <<>>
       THEN /\ LET b == BeginPhase(hosts, serverKey, form, j.host, env) IN
               /\ resp' = b.resp
               /\ pending' = b.pending
            /\ UNCHANGED hosts
       ELSE /\ LET c == ConfirmPhase(hosts, serverKey, form, j.host, env) IN
               /\ Len(c.hosts) <= MaxHosts
               /\ resp' = c.resp
               /\ hosts' = c.hosts
            /\ UNCHANGED pending

\* What key_receiver.recv() returns: the message, or an error once the sender
\* is gone and nothing was sent.  It blocks while neither is the case.
RecvReady(p) == p.queue # <<>> \/ ~p.senderAlive

\* The return of the dialog left out: the request goes on to store the host
\* with the fingerprint it has just captured.
AddHostRecv_FallsThrough ==
    /\ pending # <<>>
    /\ resp = NoResp
    /\ RecvReady(pending[1])
    /\ Len(hosts) < MaxHosts
    /\ LET p == pending[1] IN
       IF p.queue # <<>>
       THEN /\ resp' = [Response("created", "Added host", p.form)
                            EXCEPT !.key_fingerprint = <<p.queue[1]>>,
                                   !.dialed = TRUE, !.persisted = TRUE]
            /\ hosts' = InsertHost(hosts, NewHost(p.form, p.queue[1], <<>>))
       ELSE /\ resp' = [Response("error", "Connection timed out", p.form)
                            EXCEPT !.dialed = TRUE]
            /\ UNCHANGED hosts
    /\ pending' = <<>>
    /\ UNCHANGED <<serverKey, offered, op, fn>>

\* recv()'s error defaulted instead of returned: the dialog is shown with an
\* empty fingerprint.
AddHostRecv_DialogOnTimeout ==
    /\ pending # <<>>
    /\ resp = NoResp
    /\ RecvReady(pending[1])
    /\ LET p == pending[1] IN
       /\ resp' = [Response("dialog", "Please check the hostkey", p.form)
                       EXCEPT !.key_fingerprint = p.queue, !.dialed = TRUE]
       /\ offered' = [offered EXCEPT ![TargetOf(p.form)] = p.queue]
    /\ pending' = <<>>
    /\ UNCHANGED <<hosts, serverKey, op, fn>>

\* The first phase from key_receiver.recv() on.
AddHostRecv ==
    /\ pending # <<>>
    /\ resp = NoResp
    /\ RecvReady(pending[1])
    /\ LET p == pending[1] IN
       IF p.queue # <<>>
       THEN /\ resp' = [Response("dialog", "Please check the hostkey", p.form)
                            EXCEPT !.key_fingerprint = <<p.queue[1]>>,
                                   !.dialed = TRUE]
            /\ offered' = [offered EXCEPT ![TargetOf(p.form)] = <<p.queue[1]>>]
       ELSE /\ resp' = [Response("error", "Connection timed out", p.form)
                            EXCEPT !.dialed = TRUE]
            /\ UNCHANGED offered
    /\ pending' = <<>>
    /\ UNCHANGED <<hosts, serverKey, op, fn>>

\* The connection handler sends the key the server presents, once.
SenderSends ==
    /\ pending # <<>>
    /\ pending[1].senderAlive
    /\ pending' = <<[pending[1] EXCEPT
                        !.queue = <<serverKey[pending[1].form.hostname]>>,
                        !.senderAlive = FALSE]>>
    /\ UNCHANGED <<hosts, serverKey, resp, offered, op, fn>>

\* The connection ends before a key was sent.
SenderDrops ==
    /\ pending # <<>>
    /\ pending[1].senderAlive
    /\ pending' = <<[pending[1] EXCEPT !.senderAlive = FALSE]>>
    /\ UNCHANGED <<hosts, serverKey, resp, offered, op, fn>>

\* The caller takes the response.
TakeResponse ==
    /\ resp # NoResp
    /\ resp' = NoResp
    /\ UNCHANGED <<hosts, serverKey, pending, offered, op, fn>>

\* A remote address starts presenting another host key.
RotateHostKey(a, k) ==
    /\ serverKey[a] # k
    /\ serverKey' = [serverKey EXCEPT ![a] = k]
    /\ UNCHANGED <<hosts, pending, resp, offered, op, fn>>


\* ------------------------------------------------------------ key codec

\* str::splitn(3, ' '): the index of the first space of s, 0 when it has none.
RECURSIVE FirstSpace(_, _)
FirstSpace(s, i) ==
    IF i > Len(s) THEN 0
    ELSE IF s[i] = " " THEN i
    ELSE FirstSpace(s, i + 1)

\* str::splitn(3, ' '): at most three parts, the last one the whole remainder.
Splitn3(s) ==
    LET i == FirstSpace(s, 1) IN
    IF i = 0 THEN <<s>>
    ELSE LET rest == SubSeq(s, i + 1, Len(s))
             j == FirstSpace(rest, 1)
         IN  IF j = 0 THEN <<SubSeq(s, 1, i - 1), rest>>
             ELSE <<SubSeq(s, 1, i - 1), SubSeq(rest, 1, j - 1),
                    SubSeq(rest, j + 1, Len(rest))>>

\* SshPublicKey::try_from(&str): Option of the parsed key, <<>> for Malformed.
TryFrom(key_string) ==
    LET parts == Splitn3(key_string) IN
    IF Len(parts) < 2 THEN <<>>
    ELSE <<[key_type |-> parts[1], key_base64 |-> parts[2],
            comment |-> IF Len(parts) < 3 THEN <<>> ELSE <<parts[3]>>,
            owner |-> <<"None">>]>>

\* str::starts_with('#')
IsCommentLine(line) == Len(line) > 0 /\ line[1] = "#"

\* The filter_map over command.stdout.lines() in get_authorized_keys.
RECURSIVE AuthorizedKeysOf(_)
AuthorizedKeysOf(lines) ==
    IF lines = <<>> THEN <<>>
    ELSE (IF IsCommentLine(Head(lines)) THEN <<>> ELSE TryFrom(Head(lines)))
         \o AuthorizedKeysOf(Tail(lines))

\* ----------------------------------------------------------- SshClient

\* The lines the remote command may print.
SampleLines ==
    { <<"#", "c">>, <<"t", "b">>, <<"t", " ", "b", " ", "c">> }

RECURSIVE SeqsUpTo(_, _)
SeqsUpTo(S, n) ==
    IF n = 0 THEN {<<>>}
    ELSE LET shorter == SeqsUpTo(S, n - 1) IN
         shorter \cup {Append(q, x) : q \in {r \in shorter : Len(r) = n - 1},
                                      x \in S}

\* The Host rows an operation may be handed: jump_via names an earlier row.
HostRows ==
    {h \in [id : 1 .. MaxHosts, name : Names, hostname : Hostnames,
            port : ValidPorts, username : Usernames, key_fingerprint : Keys,
            jump_via : {<<>>} \cup {<<j>> : j \in 1 .. MaxHosts}] :
        h.jump_via = <<>> \/ h.jump_via[1] < h.id}

\* host.get_hostkeys(): the stored host keys, or a failed query.
StoredKeys ==
    {[err |-> TRUE, keys |-> <<>>]}
        \cup [err : {FALSE}, keys : SeqsUpTo(Keys, MaxKeys)]

\* client.execute(): a transport error, or an exit status and the output.
Executions ==
    {[err |-> TRUE, exit_status |-> 0, stdout |-> <<>>],
     [err |-> FALSE, exit_status |-> 1, stdout |-> <<>>]}
        \cup [err : {FALSE}, exit_status : {0},
              stdout : SeqsUpTo(SampleLines, MaxLines)]

\* Host::get_addr
GetAddr(host) == [hostname |-> host.hostname, port |-> host.port]

\* ServerCheckMethod::NoCheck passed instead of the stored key.
Connect_NoCheck(keyOf, addr, host_key, up) ==
    IF up
    THEN <<[addr |-> addr, route |-> "socket", check |-> <<>>,
            presented |-> keyOf[addr.hostname]]>>
    ELSE <<>>

\* SshClient::connect with ServerCheckMethod::PublicKey(host_key): the library
\* opens a socket to addr and accepts the server only when it presents
\* host_key.  up: the address is reachable and the login is accepted.
Connect(keyOf, addr, host_key, up) ==
    IF up /\ keyOf[addr.hostname] = host_key
    THEN <<[addr |-> addr, route |-> "socket", check |-> <<host_key>>,
            presented |-> keyOf[addr.hostname]]>>
    ELSE <<>>

\* The for loop of try_connect, from the i-th stored key on.
RECURSIVE TryKeys(_, _, _, _, _)
TryKeys(keyOf, host, host_keys, up, i) ==
    IF i > Len(host_keys)
    THEN [ok |-> FALSE, err |-> "SshError",
          msg |-> "Didn't find a matching host key",
          session |-> <<>>, attempts |-> Len(host_keys)]
    ELSE LET conn == Connect(keyOf, GetAddr(host), host_keys[i], up[i]) IN
         IF conn # <<>>
         THEN [ok |-> TRUE, err |-> "", msg |-> "", session |-> conn,
               attempts |-> i]
         ELSE TryKeys(keyOf, host, host_keys, up, i + 1)

\* SshClient::try_connect
try_connect(keyOf, host, stored, up) ==
    IF stored.err
    THEN [ok |-> FALSE, err |-> "DatabaseError",
          msg |-> "Failed to query host key from database.",
          session |-> <<>>, attempts |-> 0]
    ELSE TryKeys(keyOf, host, stored.keys, up, 1)

NoOp ==
    [op |-> "none", host |-> <<>>, ok |-> FALSE, err |-> "", msg |-> "",
     keys |-> <<>>, session |-> <<>>, attempts |-> 0, stored |-> <<>>,
     up |-> <<>>, disconnect |-> "not called", exec |-> <<>>,
     insertOk |-> TRUE]

\* The error of insert_authorized_keys returned instead of logged.
get_authorized_keys_Strict(keyOf, host, stored, up, exec, discOk, insertOk) ==
    LET client == try_connect(keyOf, host, stored, up)
        call == [NoOp EXCEPT !.op = "get_authorized_keys", !.host = <<host>>]
    IN  IF ~client.ok
        THEN [call EXCEPT !.err = client.err, !.msg = client.msg]
        ELSE IF exec.err
        THEN [call EXCEPT !.err = "SshError", !.msg = "execute failed",
                           !.session = client.session, !.exec = <<exec>>]
        ELSE LET closed == [call EXCEPT
                                !.session = client.session, !.exec = <<exec>>,
                                !.disconnect = IF discOk THEN "ok" ELSE "failed"]
             IN  IF exec.exit_status # 0
                 THEN [closed EXCEPT
                           !.err = "SshError",
                           !.msg = "Command exited with non-zero exit code"]
                 ELSE IF ~insertOk
                 THEN [closed EXCEPT !.err = "DatabaseError",
                                     !.msg = "insert failed",
                                     !.insertOk = FALSE]
                 ELSE [closed EXCEPT !.ok = TRUE,
                                     !.keys = AuthorizedKeysOf(exec.stdout)]

\* SshClient::get_authorized_keys: the record of the call and its result.
get_authorized_keys(keyOf, host, stored, up, exec, discOk, insertOk) ==
    LET client == try_connect(keyOf, host, stored, up)
        call == [NoOp EXCEPT !.op = "get_authorized_keys", !.host = <<host>>]
    IN  IF ~client.ok
        THEN [call EXCEPT !.err = client.err, !.msg = client.msg]
        ELSE IF exec.err
        THEN [call EXCEPT !.err = "SshError", !.msg = "execute failed",
                          !.session = client.session, !.exec = <<exec>>]
        ELSE LET closed == [call EXCEPT
                                !.session = client.session, !.exec = <<exec>>,
                                !.disconnect = IF discOk THEN "ok" ELSE "failed"]
             IN  IF exec.exit_status # 0
                 THEN [closed EXCEPT
                           !.err = "SshError",
                           !.msg = "Command exited with non-zero exit code"]
                 ELSE [closed EXCEPT !.ok = TRUE,
                                     !.keys = AuthorizedKeysOf(exec.stdout),
                                     !.insertOk = insertOk]

\* A call of try_connect.
TryConnect(host, stored, up) ==
    /\ op = NoOp
    /\ LET r == try_connect(serverKey, host, stored, up) IN
       op' = [NoOp EXCEPT !.op = "try_connect", !.host = <<host>>,
                          !.stored = <<stored>>, !.up = up, !.ok = r.ok,
                          !.err = r.err, !.msg = r.msg, !.session = r.session,
                          !.attempts = r.attempts]
    /\ UNCHANGED <<hosts, serverKey, pending, resp, offered, fn>>

\* A call of get_authorized_keys.
GetAuthorizedKeys(host, stored, up, exec, discOk, insertOk) ==
    /\ op = NoOp
    /\ op' = get_authorized_keys(serverKey, host, stored, up, exec, discOk,
                                 insertOk)
    /\ UNCHANGED <<hosts, serverKey, pending, resp, offered, fn>>

\* The caller takes the result.
TakeResult ==
    /\ op # NoOp
    /\ op' = NoOp
    /\ UNCHANGED <<hosts, serverKey, pending, resp, offered, fn>>

\* ------------------------------------------------------ key codec calls

\* No call was made, or its result was taken.
NoCall == [op |-> "none"]

\* The characters of a line.
LineChars == {"a", "b", " "}

\* The lines SshPublicKey::try_from is given.
KeyStrings == SeqsUpTo(LineChars, MaxLineLen)

\* "Type: ", "; Comment: " and "; Base64: " of the Display format strings.
TypeLabel == <<"T", "y", "p", "e", ":", " ">>
CommentLabel == <<";", " ", "C", "o", "m", "m", "e", "n", "t", ":", " ">>
Base64Label == <<";", " ", "B", "a", "s", "e", "6", "4", ":", " ">>

\* Display for SshPublicKey: what to_string() writes.
Display(key) ==
    IF key.comment # <<>>
    THEN TypeLabel \o key.key_type \o CommentLabel \o key.comment[1]
             \o Base64Label \o key.key_base64
    ELSE TypeLabel \o key.key_type \o Base64Label \o key.key_base64

\* str::lines(): the pieces between line feeds, from position i on with the
\* piece cur begun; a last piece that is empty is no line.
RECURSIVE StrLines(_, _, _)
StrLines(text, i, cur) ==
    IF i > Len(text) THEN (IF cur = <<>> THEN <<>> ELSE <<cur>>)
    ELSE IF text[i] = "\n" THEN <<cur>> \o StrLines(text, i + 1, <<>>)
    ELSE StrLines(text, i + 1, Append(cur, text[i]))

\* The two filters of from_lines, over the lines left.
RECURSIVE FilterLines(_)
FilterLines(ls) ==
    IF ls = <<>> THEN <<>>
    ELSE (IF IsCommentLine(Head(ls)) THEN <<>> ELSE TryFrom(Head(ls)))
         \o FilterLines(Tail(ls))

\* The filter on '#' left out: a comment line is parsed like any other.
from_lines_NoCommentFilter(lines) ==
    LET RECURSIVE Parse(_)
        Parse(ls) == IF ls = <<>> THEN <<>>
                     ELSE TryFrom(Head(ls)) \o Parse(Tail(ls))
    IN  Parse(StrLines(lines, 1, <<>>))

\* SshPublicKey::from_lines
from_lines(lines) == FilterLines(StrLines(lines, 1, <<>>))

\* The stored PublicKey rows.
PublicKeys ==
    [key_type : {<<"a">>, <<"b">>}, key_base64 : {<<"a">>, <<"b">>},
     comment : {<<>>, << <<"a">> >>, << <<"b", " ", "a">> >>},
     user_id : {<<>>, <<1>>, <<2>>}, host_id : {<<>>, <<1>>, <<2>>}]

\* host_id looked at before user_id.
FromPublicKey_HostFirst(value) ==
    [key_type |-> value.key_type, key_base64 |-> value.key_base64,
     comment |-> value.comment,
     owner |-> IF value.host_id # <<>> THEN <<"Host", value.host_id[1]>>
               ELSE IF value.user_id # <<>> THEN <<"User", value.user_id[1]>>
               ELSE <<"None">>]

\* From<PublicKey> for SshPublicKey
FromPublicKey(value) ==
    [key_type |-> value.key_type, key_base64 |-> value.key_base64,
     comment |-> value.comment,
     owner |-> IF value.user_id # <<>> THEN <<"User", value.user_id[1]>>
               ELSE IF value.host_id # <<>> THEN <<"Host", value.host_id[1]>>
               ELSE <<"None">>]

\* The lines a text is made of.
TextLines ==
    { <<"#", " ", "a">>, <<"a", " ", "b">>, <<"b", " ", "a", " ", "a">>,
      <<"a">>, <<>> }

\* The lines joined by line feeds.
RECURSIVE JoinLines(_)
JoinLines(ls) ==
    IF ls = <<>> THEN <<>>
    ELSE IF Len(ls) = 1 THEN ls[1]
    ELSE ls[1] \o <<"\n">> \o JoinLines(Tail(ls))

\* A call of SshPublicKey::try_from.
TryFromCall(key_string) ==
    /\ fn = NoCall
    /\ fn' = [op |-> "try_from", key_string |-> key_string,
              result |-> TryFrom(key_string)]
    /\ UNCHANGED <<hosts, serverKey, pending, resp, offered, op>>

\* to_string() of the key the last call parsed.
ToStringCall ==
    /\ fn.op = "try_from"
    /\ fn.result # <<>>
    /\ fn' = [op |-> "to_string", key_string |-> fn.key_string,
              key |-> fn.result[1], text |-> Display(fn.result[1])]
    /\ UNCHANGED <<hosts, serverKey, pending, resp, offered, op>>

\* A call of SshPublicKey::from_lines on the text made of the lines src, with
\* or without a line feed at its end.
FromLinesCall(src, nl) ==
    /\ fn = NoCall
    /\ LET lines == JoinLines(src) \o (IF nl THEN <<"\n">> ELSE <<>>) IN
       fn' = [op |-> "from_lines", src |-> src, lines |-> lines,
              result |-> from_lines(lines)]
    /\ UNCHANGED <<hosts, serverKey, pending, resp, offered, op>>

\* A stored PublicKey is converted.
FromPublicKeyCall(value) ==
    /\ fn = NoCall
    /\ fn' = [op |-> "from", value |-> value, result |-> FromPublicKey(value)]
    /\ UNCHANGED <<hosts, serverKey, pending, resp, offered, op>>

\* The caller takes the result.
TakeCall ==
    /\ fn # NoCall
    /\ fn' = NoCall
    /\ UNCHANGED <<hosts, serverKey, pending, resp, offered, op>>

\* ------------------------------------------------------- get_host_diff

\* The keys of a diff: a stored user key or a line of authorized_keys.
DiffKeys ==
    [key_type : {<<"a">>, <<"b">>}, key_base64 : {<<"a">>, <<"b">>},
     comment : {<<>>, << <<"a">> >>}]

\* The identity of a key: type and base64.
KeyId(k) == <<k.key_type, k.key_base64>>

KeyIds(S) == {KeyId(k) : k \in S}

\* The key sets of at most MaxDiffKeys keys.
KeySets == {S \in SUBSET DiffKeys : Cardinality(S) <= MaxDiffKeys}

\* The expected sets: the store holds one key per identity.
ExpectedSets == {S \in KeySets : Cardinality(KeyIds(S)) = Cardinality(S)}

\* The keys compared whole, comment included.
get_host_diff_ByWholeKey(expected, observed) ==
    [matching |-> expected \cap observed,
     expected_absent |-> expected \ observed,
     unexpected |-> observed \ expected]

\* SshClient::get_host_diff: the partition by key identity.
get_host_diff(expected, observed) ==
    [matching |-> {k \in expected : KeyId(k) \in KeyIds(observed)},
     expected_absent |-> {k \in expected : KeyId(k) \notin KeyIds(observed)},
     unexpected |-> {k \in observed : KeyId(k) \notin KeyIds(expected)}]

\* A call of get_host_diff.
GetHostDiffCall(expected, observed) ==
    /\ fn = NoCall
    /\ fn' = [op |-> "get_host_diff", expected |-> expected,
              observed |-> observed,
              diff |-> get_host_diff(expected, observed)]
    /\ UNCHANGED <<hosts, serverKey, pending, resp, offered, op>>

\* -------------------------------------------------------- AuthMiddleware

\* The pieces a request path is made of; none is the beginning or the end of
\* another one.
PathPrefixes == {"/auth/", "/static/", "/hosts/", "/diff/"}
PathPieces == PathPrefixes \cup {"h", "/remove_key", ".css", ".js", ".htm"}

\* The request paths.
Paths == {path \in SeqsUpTo(PathPieces, MaxPathLen) :
             path # <<>> /\ path[1] \in PathPrefixes}

\* str::starts_with and str::ends_with on a path.
StartsWith(path, piece) == path[1] = piece
EndsWith(path, piece) == path[Len(path)] = piece

\* The paths AuthMiddlewareService::call lets through without an identity.
SkipsAuthentication(path) ==
    \/ StartsWith(path, "/auth/")
    \/ StartsWith(path, "/static/")
    \/ EndsWith(path, ".css")
    \/ EndsWith(path, ".js")

\* AuthMiddlewareService::call: extracted tells whether Identity::extract was
\* called, forwarded whether the wrapped service was.
MiddlewareCall(path, identityOk) ==
    /\ fn = NoCall
    /\ fn' = IF SkipsAuthentication(path)
             THEN [op |-> "call", path |-> path, identity |-> identityOk,
                   extracted |-> FALSE, forwarded |-> TRUE,
                   response |-> "service"]
             ELSE IF identityOk
             THEN [op |-> "call", path |-> path, identity |-> identityOk,
                   extracted |-> TRUE, forwarded |-> TRUE,
                   response |-> "service"]
             ELSE [op |-> "call", path |-> path, identity |-> identityOk,
                   extracted |-> TRUE, forwarded |-> FALSE,
                   response |-> "Unauthorized"]
    /\ UNCHANGED <<hosts, serverKey, pending, resp, offered, op>>

\* ------------------------------------------------------ specifications

Init ==
    /\ hosts = <<>>
    /\ serverKey \in [Hostnames -> Keys]
    /\ pending = <<>>
    /\ resp = NoResp
    /\ offered = [t \in Targets |-> <<>>]
    /\ op = NoOp
    /\ fn = NoCall

\* Some request to POST /hosts/add.
AddHostRequest ==
    /\ resp = NoResp
    /\ pending = <<>>
    /\ \E form \in Forms : \E env \in EnvsOf(form) : AddHost(form, env)

\* The remote server changes a host key.
HostKeyRotation == \E a \in Hostnames, k \in Keys : RotateHostKey(a, k)

Next ==
    \/ AddHostRequest
    \/ AddHostRecv
    \/ SenderSends
    \/ SenderDrops
    \/ TakeResponse
    \/ HostKeyRotation

Spec == Init /\ [][Next]_vars

ConnInit ==
    /\ hosts = <<>>
    /\ serverKey \in [Hostnames -> Keys]
    /\ pending = <<>>
    /\ resp = NoResp
    /\ offered = [t \in Targets |-> <<>>]
    /\ op = NoOp
    /\ fn = NoCall

\* Some call of try_connect.
TryConnectCall ==
    /\ op = NoOp
    /\ \E host \in HostRows, stored \in StoredKeys,
          up \in [1 .. MaxKeys -> BOOLEAN] :
           TryConnect(host, stored, up)

\* Some call of get_authorized_keys.
GetAuthorizedKeysCall ==
    /\ op = NoOp
    /\ \E host \in HostRows, stored \in StoredKeys,
          up \in [1 .. MaxKeys -> BOOLEAN], exec \in Executions,
          discOk \in BOOLEAN, insertOk \in BOOLEAN :
           GetAuthorizedKeys(host, stored, up, exec, discOk, insertOk)

ConnNext ==
    \/ TryConnectCall
    \/ GetAuthorizedKeysCall
    \/ TakeResult

ConnSpec == ConnInit /\ [][ConnNext]_vars

\* The state no request and no call has touched.
Idle ==
    /\ hosts = <<>>
    /\ serverKey = [a \in Hostnames |-> "k1"]
    /\ pending = <<>>
    /\ resp = NoResp
    /\ offered = [t \in Targets |-> <<>>]
    /\ op = NoOp
    /\ fn = NoCall

CodecInit == Idle

\* Some call of SshPublicKey::try_from.
TryFromRequest ==
    /\ fn = NoCall
    /\ \E key_string \in KeyStrings : TryFromCall(key_string)

\* Some call of SshPublicKey::from_lines.
FromLinesRequest ==
    /\ fn = NoCall
    /\ \E src \in SeqsUpTo(TextLines, MaxTextLines), nl \in BOOLEAN :
           FromLinesCall(src, nl)

\* Some conversion of a stored PublicKey.
FromPublicKeyRequest ==
    /\ fn = NoCall
    /\ \E value \in PublicKeys : FromPublicKeyCall(value)

CodecNext ==
    \/ TryFromRequest
    \/ ToStringCall
    \/ FromLinesRequest
    \/ FromPublicKeyRequest
    \/ TakeCall

CodecSpec == CodecInit /\ [][CodecNext]_vars

DiffInit == Idle

\* Some call of get_host_diff.
GetHostDiffRequest ==
    /\ fn = NoCall
    /\ \E expected \in ExpectedSets, observed \in KeySets :
           GetHostDiffCall(expected, observed)

DiffNext ==
    \/ GetHostDiffRequest
    \/ TakeCall

DiffSpec == DiffInit /\ [][DiffNext]_vars

MiddlewareInit == Idle

\* Some request reaches the middleware.
MiddlewareRequest ==
    /\ fn = NoCall
    /\ \E path \in Paths, identityOk \in BOOLEAN :
           MiddlewareCall(path, identityOk)

MiddlewareNext ==
    \/ MiddlewareRequest
    \/ TakeCall

MiddlewareSpec == MiddlewareInit /\ [][MiddlewareNext]_vars

\* -------------------------------------------------- host registration

\* An add_host request returns its response in this step.
RequestCompletes == resp = NoResp /\ resp' # NoResp

\* The protocol state a response stands for.
TrustState(r) ==
    IF r.kind = "dialog" THEN "FINGERPRINT_OFFERED"
    ELSE IF r.kind = "created" THEN "CONFIRMED"
    ELSE IF r.msg = "Connection timed out" THEN "TIMEOUT"
    ELSE "REJECTED"

Failed(r) == r.kind \in {"error", "not_found"}

\* C1: a Host is stored only by a request whose trusting authentication
\* succeeded, the stored key_fingerprint is the one that authentication
\* verified against, and a request whose authentication failed answers with an
\* error and leaves the Host table as it was.
C1_PersistOnlyAfterAuthentication ==
    [][ /\ hosts' # hosts =>
              /\ RequestCompletes
              /\ resp'.auth = "ok"
              /\ Len(hosts') = Len(hosts) + 1
              /\ SubSeq(hosts', 1, Len(hosts)) = hosts
              /\ <<hosts'[Len(hosts')].key_fingerprint>> = resp'.key_fingerprint
        /\ (RequestCompletes /\ resp'.auth = "failed") =>
              (resp'.kind = "error" /\ hosts' = hosts)
      ]_vars

\* C1 witness: a request authenticated and the host was stored with the
\* fingerprint it verified.
C1_Witness ==
    /\ resp.kind = "created"
    /\ resp.auth = "ok"
    /\ hosts # <<>>
    /\ <<hosts[Len(hosts)].key_fingerprint>> = resp.key_fingerprint

BeginStep ==
    /\ pending = <<>>
    /\ resp = NoResp
    /\ \/ pending' # <<>>
       \/ resp' # NoResp /\ resp'.form[1].key_fingerprint = <<>>

\* C4: a first-phase request stores no Host and ends, when it ends, with an
\* error response or with the dialog that carries the fingerprint delivered on
\* the channel.
C4_FirstPhaseNeverPersists ==
    [][ /\ BeginStep =>
              /\ hosts' = hosts
              /\ pending' # <<>> \/ Failed(resp')
        /\ pending # <<>> =>
              /\ hosts' = hosts
              /\ pending' = <<>> =>
                     \/ Failed(resp')
                     \/ /\ resp'.kind = "dialog"
                        /\ pending[1].queue # <<>>
                        /\ resp'.key_fingerprint = pending[1].queue
      ]_vars

\* C4 witness: a first-phase request ended with the dialog, the Host table
\* holding what it held before.
C4_Witness ==
    /\ resp.kind = "dialog"
    /\ resp.form[1].key_fingerprint = <<>>
    /\ resp.key_fingerprint # <<>>
    /\ ~resp.persisted
    /\ hosts # <<>>

\* C5: whenever a first-phase request waits for the fingerprint, the wait can
\* end by itself: recv() is able to return.
C5_WaitCanAlwaysEnd ==
    pending # <<>> => ENABLED AddHostRecv

\* The chain of jump hosts that starts at row i ends in a row without
\* jump_via after at most fuel hops.
RECURSIVE ChainEnds(_, _, _)
ChainEnds(store, i, fuel) ==
    /\ fuel > 0
    /\ i \in DOMAIN store
    /\ \/ store[i].jump_via = <<>>
       \/ ChainEnds(store, store[i].jump_via[1], fuel - 1)

Acyclic(store) == \A i \in DOMAIN store : ChainEnds(store, i, Len(store))

\* Row target is on the chain of jump hosts that starts at row i.
RECURSIVE Reaches(_, _, _, _)
Reaches(store, i, target, fuel) ==
    /\ fuel > 0
    /\ i \in DOMAIN store
    /\ \/ i = target
       \/ /\ store[i].jump_via # <<>>
          /\ Reaches(store, store[i].jump_via[1], target, fuel - 1)

\* Storing the request's host with the jump host id it names would close a
\* cycle: the chain of the new row would lead back to the new row.
WouldCreateCycle(store, form) ==
    /\ form.jumphost # <<>>
    /\ Reaches(Append(store, [id |-> Len(store) + 1,
                              jump_via |-> form.jumphost]),
               form.jumphost[1], Len(store) + 1, Len(store) + 1)

\* C8: jump_via stays acyclic with every chain ending in a direct host, and a
\* request that would create a cycle is rejected before any connection
\* attempt.
C8_AcyclicAndCyclesRejected ==
    [][ /\ Acyclic(hosts')
        /\ (RequestCompletes /\ WouldCreateCycle(hosts, resp'.form[1])) =>
              (Failed(resp') /\ ~resp'.dialed /\ hosts' = hosts)
      ]_vars

\* ------------------------------------------------------------ SshClient

\* The stored keys whose connection attempt succeeds.
Connecting ==
    LET host == op.host[1]
        keys == op.stored[1].keys
    IN  {i \in 1 .. Len(keys) :
            op.up[i] /\ serverKey[host.hostname] = keys[i]}

\* C6: try_connect returns the session of the first stored key that connects
\* and tries no key after it; with no stored key connecting it returns the
\* trust error; a returned session was verified against a stored key.
C6_FirstMatchingKey ==
    (op.op = "try_connect" /\ ~op.stored[1].err) =>
        LET keys == op.stored[1].keys IN
        IF Connecting = {}
        THEN /\ ~op.ok
             /\ op.err = "SshError"
             /\ op.msg = "Didn't find a matching host key"
             /\ op.session = <<>>
             /\ op.attempts = Len(keys)
        ELSE /\ op.ok
             /\ op.attempts \in Connecting
             /\ \A i \in Connecting : op.attempts <= i
             /\ op.session[1].check = <<keys[op.attempts]>>
             /\ op.session[1].presented = keys[op.attempts]

\* C6 witness: the first stored key failed and the second one connected.
C6_Witness ==
    /\ op.op = "try_connect"
    /\ op.ok
    /\ op.attempts = 2
    /\ op.stored[1].keys[1] # op.stored[1].keys[2]

\* C7: a session to a host with jump_via is a channel forwarded from a session
\* to the jump host, never a socket to the host's own address.
C7_JumpHostsAreUsed ==
    (op.op # "none" /\ op.host[1].jump_via # <<>> /\ op.session # <<>>) =>
        op.session[1].route = "forwarded"

\* C9: a session get_authorized_keys opened is disconnected when it returns.
C9_SessionDisconnected ==
    (op.op = "get_authorized_keys" /\ op.session # <<>>) =>
        op.disconnect # "not called"

\* C10: a non-zero exit status is reported as an execution error, and exit
\* status 0 with empty output as success with zero keys.
C10_NonZeroExitIsExecutionError ==
    (op.op = "get_authorized_keys" /\ op.exec # <<>> /\ ~op.exec[1].err) =>
        /\ op.exec[1].exit_status # 0 =>
               (~op.ok /\ op.err = "ExecutionError")
        /\ (op.exec[1].exit_status = 0 /\ op.exec[1].stdout = <<>>) =>
               (op.ok /\ op.keys = <<>>)

\* The keys are those of the lines that are no comment and parse, in the order
\* of the lines.
ParsedInOrder(lines, keys) ==
    LET kept == {i \in 1 .. Len(lines) :
                    ~IsCommentLine(lines[i]) /\ TryFrom(lines[i]) # <<>>}
        rank(i) == Cardinality({j \in kept : j <= i})
    IN  /\ Len(keys) = Cardinality(kept)
        /\ \A i \in kept : keys[rank(i)] = TryFrom(lines[i])[1]

\* C11: whenever the remote read succeeded with exit status 0,
\* get_authorized_keys returns Ok with every parsed key, whether
\* insert_authorized_keys succeeded or failed.
C11_InsertFailureAbsorbed ==
    ( /\ op.op = "get_authorized_keys"
      /\ op.exec # <<>>
      /\ ~op.exec[1].err
      /\ op.exec[1].exit_status = 0 )
    => /\ op.ok
       /\ op.err = ""
       /\ ParsedInOrder(op.exec[1].stdout, op.keys)

\* C11 witness: the insertion failed and the parsed keys were returned.
C11_Witness ==
    /\ op.op = "get_authorized_keys"
    /\ op.ok
    /\ ~op.insertOk
    /\ Len(op.keys) = 2

\* ------------------------------------------------------------ key codec

\* The first position from i on that holds no space, Len(s) + 1 if none does.
RECURSIVE SkipSpaces(_, _)
SkipSpaces(s, i) ==
    IF i > Len(s) THEN Len(s) + 1
    ELSE IF s[i] # " " THEN i
    ELSE SkipSpaces(s, i + 1)

\* The first position from i on that holds a space, Len(s) + 1 if none does.
RECURSIVE TokenEnd(_, _)
TokenEnd(s, i) ==
    IF i > Len(s) THEN Len(s) + 1
    ELSE IF s[i] = " " THEN i
    ELSE TokenEnd(s, i + 1)

\* The whitespace-separated tokens of a line: where the first two begin and
\* end, the tokens, and the remainder after the separator that follows the
\* second one; plain: the line is 'T B' or 'T B C' with single spaces.
TokensOf(s) ==
    LET b1 == SkipSpaces(s, 1)
        e1 == TokenEnd(s, b1)
        b2 == SkipSpaces(s, e1)
        e2 == TokenEnd(s, b2)
    IN  [two |-> b2 <= Len(s),
         first |-> SubSeq(s, b1, e1 - 1),
         second |-> SubSeq(s, b2, e2 - 1),
         remainder |-> IF e2 > Len(s) THEN <<>>
                       ELSE <<SubSeq(s, e2 + 1, Len(s))>>,
         plain |-> b2 <= Len(s) /\ b1 = 1 /\ b2 = e1 + 1 /\ e2 # Len(s)]

\* C12: try_from returns Malformed exactly when the line lacks a non-empty
\* type token and a non-empty base64 token separated by whitespace; otherwise
\* key_type is the first token, key_base64 the second and the comment the whole
\* remainder after the second token, absent when there is none.
C12_MalformedExactlyWithoutTwoTokens ==
    fn.op = "try_from" =>
        LET t == TokensOf(fn.key_string) IN
        /\ fn.result = <<>> <=> ~t.two
        /\ t.two =>
              /\ fn.result[1].key_type = t.first
              /\ fn.result[1].key_base64 = t.second
              /\ fn.result[1].comment = t.remainder

\* C13: serialization is the inverse of parsing: the parsed key of a line
\* 'T B C' or 'T B' serializes as that line, and the key of 'T B' has no
\* comment.
C13_SerializeInvertsParse ==
    (fn.op = "to_string" /\ TokensOf(fn.key_string).plain) =>
        /\ fn.text = fn.key_string
        /\ TokensOf(fn.key_string).remainder = <<>> => fn.key.comment = <<>>

\* C14: from_lines returns exactly the keys of the lines that parse, in input
\* order: lines beginning with '#' are skipped, malformed lines are dropped,
\* and every input has a result.
C14_FromLinesKeepsParseableInOrder ==
    fn.op = "from_lines" => ParsedInOrder(fn.src, fn.result)

\* C14 witness: a comment line, a malformed line and two lines that parse; the
\* two keys are returned in the order of their lines.
C14_Witness ==
    /\ fn.op = "from_lines"
    /\ fn.src = << <<"b", " ", "a", " ", "a">>, <<"a">>, <<"a", " ", "b">> >>
    /\ Len(fn.result) = 2
    /\ fn.result[1].key_type = <<"b">>
    /\ fn.result[2].key_type = <<"a">>

\* C16: the conversion of a stored PublicKey yields one owner form for every
\* combination of user_id and host_id: User(u) when user_id is set, Host(h)
\* when only host_id is set, None when neither is; key_type, key_base64 and
\* comment are carried over.
C16_OneOwnerForm ==
    fn.op = "from" =>
        LET value == fn.value
            owner == fn.result.owner
        IN  /\ value.user_id # <<>> => owner = <<"User", value.user_id[1]>>
            /\ (value.user_id = <<>> /\ value.host_id # <<>>) =>
                   owner = <<"Host", value.host_id[1]>>
            /\ (value.user_id = <<>> /\ value.host_id = <<>>) =>
                   owner = <<"None">>
            /\ fn.result.key_type = value.key_type
            /\ fn.result.key_base64 = value.key_base64
            /\ fn.result.comment = value.comment

\* C16 witness: a row with both user_id and host_id set became a key owned by
\* the user.
C16_Witness ==
    /\ fn.op = "from"
    /\ fn.value.user_id = <<1>>
    /\ fn.value.host_id = <<2>>
    /\ fn.result.owner = <<"User", 1>>

\* ------------------------------------------------------- get_host_diff

\* C15: the HostDiff of an expected set E and
\* an observed set O has matching and expected_absent make up E, matching and
\* unexpected make up O, no key in two partitions, and membership decided by
\* type and base64 only.
C15_DiffPartition ==
    fn.op = "get_host_diff" =>
        LET d == fn.diff IN
        /\ d.matching \cup d.expected_absent = fn.expected
        /\ KeyIds(d.matching \cup d.unexpected) = KeyIds(fn.observed)
        /\ d.unexpected \subseteq fn.observed
        /\ KeyIds(d.matching) \cap KeyIds(d.expected_absent) = {}
        /\ KeyIds(d.matching) \cap KeyIds(d.unexpected) = {}
        /\ KeyIds(d.expected_absent) \cap KeyIds(d.unexpected) = {}
        /\ \A k \in fn.expected :
               k \in d.matching <=> \E o \in fn.observed : KeyId(o) = KeyId(k)

\* C15 witness: an expected key is observed with another comment and counts as
\* matching, beside one key only expected and one only observed.
C15_Witness ==
    /\ fn.op = "get_host_diff"
    /\ fn.diff.matching # {}
    /\ fn.diff.matching \cap fn.observed = {}
    /\ fn.diff.expected_absent # {}
    /\ fn.diff.unexpected # {}

\* ------------------------------------------- host registration, continued

\* A request is taken in this step, and the form it carries.
RequestStarts ==
    /\ pending = <<>>
    /\ resp = NoResp
    /\ pending' # <<>> \/ resp' # NoResp

StartedForm == IF pending' # <<>> THEN pending'[1].form ELSE resp'.form[1]

\* The request was refused before any connection attempt, nothing stored.
RefusedBeforeDial ==
    /\ pending' = <<>>
    /\ ~resp'.dialed
    /\ ~resp'.persisted
    /\ hosts' = hosts

\* C17 as claimed: a request whose port is out of range is rejected with
\* 'Invalid port number' before any connection attempt and stores no Host.
C17_InvalidPortAnswered ==
    [][ (RequestStarts /\ ~PortOk(StartedForm.port)) =>
            /\ RefusedBeforeDial
            /\ resp'.kind = "error"
            /\ resp'.msg = "Invalid port number"
      ]_vars

\* C17 as amended: a request whose port is out of range is rejected before any
\* connection attempt and stores no Host; the answer is 'Invalid port number',
\* or 'Couldn't find jump host' when the request names a jump host by a
\* non-negative id, whose lookup comes first.
C17_InvalidPortRefusedBeforeDial ==
    [][ (RequestStarts /\ ~PortOk(StartedForm.port)) =>
            /\ RefusedBeforeDial
            /\ \/ resp'.kind = "error" /\ resp'.msg = "Invalid port number"
               \/ /\ resp'.kind = "not_found"
                  /\ resp'.msg = "Couldn't find jump host"
                  /\ StartedForm.jumphost # <<>>
                  /\ StartedForm.jumphost[1] >= 0
      ]_vars

\* C17 witness: a second-phase request with a port out of range was answered
\* 'Invalid port number'.
C17_Witness ==
    /\ resp.msg = "Invalid port number"
    /\ resp.form[1].key_fingerprint # <<>>
    /\ ~PortOk(resp.form[1].port)
    /\ ~resp.dialed

\* C18: a request that names a jump host by a non-negative id that resolves to
\* no stored Host fails with 'Couldn't find jump host', with no connection
\* attempt and nothing stored.
C18_UnresolvedJumpHostRefused ==
    [][ ( /\ RequestStarts
          /\ StartedForm.jumphost # <<>>
          /\ StartedForm.jumphost[1] >= 0
          /\ StartedForm.jumphost[1] \notin DOMAIN hosts )
        => /\ RefusedBeforeDial
           /\ resp'.kind = "not_found"
           /\ resp'.msg = "Couldn't find jump host"
      ]_vars

\* C19: the jump_via stored for a new Host is the id of the jump host the
\* trusting authentication of that request was made through, and absent when
\* the authentication dialed the target directly.
C19_PersistedRouteIsAuthenticatedRoute ==
    [][ (RequestCompletes /\ hosts' # hosts) =>
            LET new_host == hosts'[Len(hosts')] IN
            /\ resp'.auth = "ok"
            /\ resp'.route # <<>> => new_host.jump_via = <<resp'.route[1].id>>
            /\ resp'.route = <<>> => new_host.jump_via = <<>>
      ]_vars

\* C19 witness: a host authenticated through a jump host was stored with that
\* jump host's id.
C19_Witness ==
    /\ resp.kind = "created"
    /\ resp.route # <<>>
    /\ hosts[Len(hosts)].jump_via = <<resp.route[1].id>>

\* ------------------------------------------------------- AuthMiddleware

\* C20: a request for a path under /hosts or /diff is forwarded to the wrapped
\* service only when identity extraction succeeded; without an identity it is
\* answered Unauthorized.
C20_HostAndDiffRoutesNeedIdentity ==
    ( /\ fn.op = "call"
      /\ (StartsWith(fn.path, "/hosts/") \/ StartsWith(fn.path, "/diff/"))
      /\ ~fn.identity )
    => (~fn.forwarded /\ fn.response = "Unauthorized")

====
